---- MODULE Spec2Model ----
(***************************************************************************)
(* A model of the JSON reader in src/src/main.rs: tokenize (text to token  *)
(* sequence) and Parser (token sequence to value tree).                    *)
(*                                                                         *)
(* A character is a one-character string; the control characters that the  *)
(* escapes produce are written "BS", "FF", "LF", "CR", "TAB", the vertical *)
(* tab "VT" and the other white space outside ASCII by its code point, as  *)
(* in "U+00A0".  A text is a sequence of characters.  The cursor `current` *)
(* counts consumed tokens as in the source (0-based), so the token at the  *)
(* cursor is tokens[current + 1].                                          *)
(***************************************************************************)
EXTENDS Integers, Sequences, FiniteSets, TLC

VARIABLES
    text,     \* tokenize: the input characters
    pos,      \* tokenize: position of the character chars.peek() returns
    toks,     \* tokenize: the Vec of tokens pushed so far
    tokres,   \* what tokenize returned (NoResult before it returns)
    tokens,   \* Parser.tokens
    current,  \* Parser.current
    stack,    \* the parse_object / parse_array activations, innermost last
    pc,       \* the function the control is in
    result,   \* what Parser::parse returned (NoResult before it returns)
    proc      \* the process: the room of its stack and the sizes of the frames

vars == <<text, pos, toks, tokres, tokens, current, stack, pc, result, proc>>

----------------------------------------------------------------------------
(* Bounds of the checked inputs.                                           *)

\* A checked text is the concatenation of at most MaxLexemes words.
MaxLexemes == 2
\* Every token sequence of at most MaxFree tokens is checked.
MaxFree == 3
\* Objects and arrays of at most MaxMembers members are checked.
MaxMembers == 3
\* Against a stack of every small size, containers nested up to MaxDepth deep
\* are checked.
MaxDepth == 2

----------------------------------------------------------------------------
(* Results and error messages; a message is the sequence of its pieces.    *)

NoResult == [st |-> "none"]
Ok(v) == [st |-> "ok", val |-> v]
Err(m) == [st |-> "err", msg |-> m]
\* the process ended by a panic or an abort instead of a return
Died(m) == [st |-> "died", msg |-> m]

ErrEscape == <<"Secuencia de escape inválida">>
ErrNumber == <<"Número inválido">>
ErrTrue == <<"Token inválido: esperaba 'true'">>
ErrFalse == <<"Token inválido: esperaba 'false'">>
ErrNull == <<"Token inválido: esperaba 'null'">>
ErrChar(c) == <<"Carácter inesperado: ", c>>
ErrEnd == <<"Fin inesperado de entrada">>
ErrToken == <<"Token inesperado">>
ErrNoKey == <<"Se esperaba una key">>
ErrKey == <<"La key debe ser un string">>
ErrColon == <<"Se esperaba ':'">>
ErrObjSep == <<"Se esperaba ',' o '}'">>
ErrObjOpen == <<"Objeto no cerrado correctamente">>
ErrArrSep == <<"Se esperaba ',' o ']'">>
ErrArrOpen == <<"Array no cerrado correctamente">>
PanicSubtract == <<"attempt to subtract with overflow">>
AbortStack == <<"thread 'main' has overflowed its stack">>

----------------------------------------------------------------------------
(* enum Token and enum JsonValue.                                          *)

LeftBrace == [kind |-> "LeftBrace"]
RightBrace == [kind |-> "RightBrace"]
LeftBracket == [kind |-> "LeftBracket"]
RightBracket == [kind |-> "RightBracket"]
Colon == [kind |-> "Colon"]
Comma == [kind |-> "Comma"]
TString(s) == [kind |-> "String", s |-> s]
TNumber(n) == [kind |-> "Number", n |-> n]
TBoolean(b) == [kind |-> "Boolean", b |-> b]
TNull == [kind |-> "Null"]

JNull == [type |-> "Null"]
JBoolean(b) == [type |-> "Boolean", b |-> b]
JNumber(n) == [type |-> "Number", n |-> n]
JString(s) == [type |-> "String", s |-> s]
JArray(items) == [type |-> "Array", items |-> items]
JObject(map) == [type |-> "Object", map |-> map]

\* HashMap::new and HashMap::insert: a map is a function from keys to values.
EmptyMap == <<>>

\* MapInsert keeping the entry a key already has
MapInsertKeepsFirst(map, key, value) ==
    [k \in (DOMAIN map) \cup {key} |-> IF k \in DOMAIN map THEN map[k] ELSE value]

MapInsert(map, key, value) ==
    [k \in (DOMAIN map) \cup {key} |-> IF k = key THEN value ELSE map[k]]

----------------------------------------------------------------------------
(* f64 values and str::parse::<f64>, which gives the f64 nearest to the    *)
(* decimal it reads (ties to even).                                        *)

Digits == {"0", "1", "2", "3", "4", "5", "6", "7", "8", "9"}
DigitVal(c) ==
    CASE c = "0" -> 0 [] c = "1" -> 1 [] c = "2" -> 2 [] c = "3" -> 3
      [] c = "4" -> 4 [] c = "5" -> 5 [] c = "6" -> 6 [] c = "7" -> 7
      [] c = "8" -> 8 [] c = "9" -> 9 [] OTHER -> 0

\* An f64 is its IEEE 754 binary64 encoding: the sign, the 11-bit exponent
\* field as a number and the 52 bits of the fraction field, first bit first.
F64FracBits == 52
F64ExpBias == 1023
F64ExpMax == 2047
F64(neg, exp, frac) == [neg |-> neg, exp |-> exp, frac |-> frac]
Zeros(n) == [i \in 1..n |-> 0]
F64Zero(neg) == F64(neg, 0, Zeros(F64FracBits))
F64Inf(neg) == F64(neg, F64ExpMax, Zeros(F64FracBits))

\* A natural number as its decimal digits, first digit first, zero as <<>>.
StripLeading(ds) ==
    IF \A i \in 1..Len(ds) : ds[i] = 0 THEN <<>>
    ELSE SubSeq(ds, CHOOSE i \in 1..Len(ds) :
                        ds[i] # 0 /\ \A j \in 1..(i - 1) : ds[j] = 0, Len(ds))

\* a < b
DecLess(x, y) ==
    \E a \in {x}, b \in {y} :
        IF Len(a) # Len(b) THEN Len(a) < Len(b)
        ELSE \E i \in 1..Len(a) : a[i] < b[i] /\ \A j \in 1..(i - 1) : a[j] = b[j]

\* 2 * a: the carry into a digit is 1 when the digit after it is 5 or more
DecDouble(x) ==
    CHOOSE r \in
        {(IF a # <<>> /\ a[1] >= 5 THEN <<1>> ELSE <<>>)
             \o [i \in 1..Len(a) |->
                    (2 * a[i] + (IF i < Len(a) /\ a[i + 1] >= 5 THEN 1 ELSE 0)) % 10]
         : a \in {x}} : TRUE

\* 2^k * a, by halves of k
RECURSIVE DecShift(_, _)
DecShift(a, k) ==
    IF k = 0 THEN a
    ELSE IF k = 1 THEN DecDouble(a)
    ELSE CHOOSE r \in
             {DecShift(h, m) : h \in {DecShift(a, k \div 2)}, m \in {k - k \div 2}} : TRUE

\* The digits lo..hi of a - b (b as long as a) with a borrow coming in from
\* digit hi + 1, and the borrow going out of digit lo; by halves of lo..hi.
RECURSIVE DecSubRange(_, _, _, _, _)
DecSubRange(a, b, lo, hi, borrow) ==
    IF lo = hi
    THEN [ds |-> <<(a[lo] - b[lo] - borrow + 10) % 10>>,
          borrow |-> IF a[lo] - b[lo] - borrow < 0 THEN 1 ELSE 0]
    ELSE CHOOSE r \in
             {CHOOSE s \in
                  {CHOOSE t \in
                       {[ds |-> left.ds \o right.ds, borrow |-> left.borrow]
                        : left \in {DecSubRange(a, b, lo, mid, right.borrow)}} : TRUE
                   : right \in {DecSubRange(a, b, mid + 1, hi, borrow)}} : TRUE
              : mid \in {(lo + hi) \div 2}} : TRUE

\* a - b for a >= b
DecSub(x, y) ==
    IF x = <<>> THEN <<>>
    ELSE CHOOSE r \in
             {StripLeading(DecSubRange(a, b, 1, Len(a), 0).ds)
              : a \in {x}, b \in {[i \in 1..(Len(x) - Len(y)) |-> 0] \o y}} : TRUE

\* x / y = (q.x / q.y) * 2^(q.e) with q.y <= q.x < 2 * q.y, for x and y not
\* zero.  ScaleDown, for x >= y, doubles y; ScaleUp, for x < y, doubles x.
RECURSIVE ScaleDown(_, _, _)
ScaleDown(x, y, e) ==
    CHOOSE r \in
        {IF DecLess(x, y2) THEN [x |-> x, y |-> y, e |-> e]
         ELSE ScaleDown(x, y2, e + 1) : y2 \in {DecDouble(y)}} : TRUE

RECURSIVE ScaleUp(_, _, _)
ScaleUp(x, y, e) ==
    IF ~DecLess(x, y) THEN [x |-> x, y |-> y, e |-> e]
    ELSE CHOOSE r \in {ScaleUp(x2, y, e - 1) : x2 \in {DecDouble(x)}} : TRUE

\* The scaling starts from a power of two that the lengths make safe: with d
\* more digits in x than in y, 10^(d - 1) <= x / y < 10^(d + 1), and
\* 2^3321 < 10^1000 < 2^3322.
Log2Of10Low == 3321
Log2Scale == 1000
Normalise(x, y) ==
    LET d == Len(x) - Len(y)
        down == IF d >= 1 THEN ((d - 1) * Log2Of10Low) \div Log2Scale ELSE 0
        up == IF d <= -1 THEN ((-d - 1) * Log2Of10Low) \div Log2Scale ELSE 0
    IN  CHOOSE r \in
            {IF DecLess(a, b) THEN ScaleUp(a, b, down - up) ELSE ScaleDown(a, b, down - up)
             : a \in {DecShift(x, up)}, b \in {DecShift(y, down)}} : TRUE

\* One step of the division of s.x by y (s.x < 2 * y): the next binary digit
\* of the quotient goes after s.bits, twice the remainder is left in s.x.
DivStep(s, y) ==
    CHOOSE r \in
        {[x |-> DecDouble(IF bit = 1 THEN DecSub(s.x, y) ELSE s.x),
          bits |-> Append(s.bits, bit)]
         : bit \in {IF DecLess(s.x, y) THEN 0 ELSE 1}} : TRUE

\* n steps, by halves of n
RECURSIVE DivSteps(_, _, _)
DivSteps(s, y, n) ==
    IF n = 0 THEN s
    ELSE IF n = 1 THEN DivStep(s, y)
    ELSE CHOOSE r \in
             {DivSteps(h, y, m) : h \in {DivSteps(s, y, n \div 2)}, m \in {n - n \div 2}}
             : TRUE

\* the first n binary digits of x / y for y <= x < 2 * y, and whether the
\* division leaves a remainder
QuotientBits(x, y, n) ==
    CHOOSE r \in
        {[bits |-> s.bits, rest |-> s.x # <<>>]
         : s \in {DivSteps([x |-> x, bits |-> <<>>], y, n)}} : TRUE

\* the place of the last 0 in the fraction bits, 0 when all are 1
LastZero(frac) ==
    IF \A i \in 1..F64FracBits : frac[i] = 1 THEN 0
    ELSE CHOOSE i \in 1..F64FracBits :
             frac[i] = 0 /\ \A j \in (i + 1)..F64FracBits : frac[j] = 1

\* the f64 after (exp, frac) in the order of the encodings: the carry out of
\* the fraction goes into the exponent, and from the largest finite value to
\* infinity
F64Succ(neg, exp, frac) ==
    CHOOSE r \in
        {IF k = 0 THEN F64(neg, exp + 1, Zeros(F64FracBits))
         ELSE F64(neg, exp, [i \in 1..F64FracBits |->
                                IF i < k THEN frac[i] ELSE IF i = k THEN 1 ELSE 0])
         : k \in {LastZero(frac)}} : TRUE

\* (q.x / q.y) * 2^(q.e) rounded to the nearest f64, ties to the even fraction:
\* p significant bits are kept (53, fewer for a subnormal), then come the
\* rounding bit and the rest.
F64MinExp == -1022
F64Round(neg, q) ==
    LET normal == q.e >= F64MinExp
        p == IF normal THEN F64FracBits + 1 ELSE F64FracBits + 1 - (F64MinExp - q.e)
        exp == IF normal THEN q.e + F64ExpBias ELSE 0
    IN  IF q.e > F64ExpMax - 1 - F64ExpBias THEN F64Inf(neg)
        ELSE IF p < 0 THEN F64Zero(neg)
        ELSE CHOOSE r \in
                 {CHOOSE s \in
                      {IF d.bits[p + 1] = 1 /\ (d.rest \/ frac[F64FracBits] = 1)
                       THEN F64Succ(neg, exp, frac)
                       ELSE F64(neg, exp, frac)
                       : frac \in {IF normal THEN SubSeq(d.bits, 2, p)
                                   ELSE Zeros(F64FracBits - p) \o SubSeq(d.bits, 1, p)}}
                      : TRUE
                  : d \in {QuotientBits(q.x, q.y, p + 1)}} : TRUE

\* the f64 of sign * (digits as an integer) * 10^exp.  A decimal of mag digits
\* before the point is at least 10^(mag - 1) and less than 10^mag: beyond 309
\* it is over every finite f64, below -323 under half the least subnormal.
F64MaxMag == 309
F64MinMag == -323
F64Of(neg, rawDigits, rawExp) ==
    CHOOSE r \in
        {IF ds = <<>> THEN F64Zero(neg)
         ELSE IF Len(ds) + rawExp > F64MaxMag THEN F64Inf(neg)
         ELSE IF Len(ds) + rawExp < F64MinMag THEN F64Zero(neg)
         ELSE CHOOSE s \in
                  {F64Round(neg, q) :
                       q \in {Normalise(ds \o Zeros(IF rawExp > 0 THEN rawExp ELSE 0),
                                        <<1>> \o Zeros(IF rawExp < 0 THEN -rawExp ELSE 0))}}
                  : TRUE
         : ds \in {StripLeading(rawDigits)}} : TRUE

\* The state of the decimal reader of str::parse::<f64> (dec2flt) as it goes
\* through sign? (digits+ ('.' digits*)? | '.' digits+) ([eE] sign? digits+)?
\* : where it is, the sign, the digits of the integer and fraction parts, the
\* number of fraction digits, and the exponent.
NumStart ==
    [at |-> "sign", neg |-> FALSE, mant |-> <<>>, frac |-> 0,
     expNeg |-> FALSE, exp |-> 0]

NumStep(st, c) ==
    LET d == DigitVal(c)
        bad == [st EXCEPT !.at = "bad"]
        toExp == IF st.mant = <<>> THEN bad ELSE [st EXCEPT !.at = "exp?"]
    IN  CASE st.at = "sign" ->
                 IF c \in {"-", "+"} THEN [st EXCEPT !.at = "int", !.neg = (c = "-")]
                 ELSE IF c \in Digits THEN [st EXCEPT !.at = "int", !.mant = <<d>>]
                 ELSE IF c = "." THEN [st EXCEPT !.at = "frac"]
                 ELSE bad
          [] st.at = "int" ->
                 IF c \in Digits THEN [st EXCEPT !.mant = Append(@, d)]
                 ELSE IF c = "." THEN [st EXCEPT !.at = "frac"]
                 ELSE IF c \in {"e", "E"} THEN toExp
                 ELSE bad
          [] st.at = "frac" ->
                 IF c \in Digits
                 THEN [st EXCEPT !.mant = Append(@, d), !.frac = @ + 1]
                 ELSE IF c \in {"e", "E"} THEN toExp
                 ELSE bad
          [] st.at = "exp?" ->
                 IF c \in {"-", "+"} THEN [st EXCEPT !.at = "exp!", !.expNeg = (c = "-")]
                 ELSE IF c \in Digits THEN [st EXCEPT !.at = "exp", !.exp = d]
                 ELSE bad
          [] st.at = "exp!" ->
                 IF c \in Digits THEN [st EXCEPT !.at = "exp", !.exp = d] ELSE bad
          [] st.at = "exp" ->
                 \* the exponent saturates as in dec2flt's parse_scientific
                 IF c \in Digits
                 THEN [st EXCEPT !.exp = IF @ < 65536 THEN 10 * @ + d ELSE @]
                 ELSE bad
          [] OTHER -> bad

\* the reader's state after the characters lo..hi of s, by halves of lo..hi
RECURSIVE NumScan(_, _, _, _)
NumScan(s, lo, hi, st) ==
    IF lo > hi THEN st
    ELSE IF lo = hi THEN NumStep(st, s[lo])
    ELSE CHOOSE r \in
             {CHOOSE t \in
                  {NumScan(s, mid + 1, hi, h) : h \in {NumScan(s, lo, mid, st)}} : TRUE
              : mid \in {(lo + hi) \div 2}} : TRUE

\* s.parse::<f64>() for s over digits, '.', 'e', 'E', '+', '-'
ParseF64(s) ==
    LET ends == {NumScan(s, 1, Len(s), NumStart)}
    IN  CHOOSE r \in
            {IF st.at \in {"int", "frac", "exp"} /\ st.mant # <<>>
             THEN Ok(F64Of(st.neg, st.mant,
                           (IF st.expNeg THEN -st.exp ELSE st.exp) - st.frac))
             ELSE Err(ErrNumber) : st \in ends} : TRUE

----------------------------------------------------------------------------
(* tokenize: the character classes and the sub-scanners.                   *)

\* char::is_whitespace: the characters of the Unicode property White_Space
IsWhitespace(c) ==
    c \in {"TAB", "LF", "VT", "FF", "CR", " ", "U+0085", "U+00A0", "U+1680",
           "U+2000", "U+2001", "U+2002", "U+2003", "U+2004", "U+2005", "U+2006",
           "U+2007", "U+2008", "U+2009", "U+200A", "U+2028", "U+2029", "U+202F",
           "U+205F", "U+3000"}
IsStructural(c) == c \in {"{", "}", "[", "]", ":", ","}
StructuralToken(c) ==
    CASE c = "{" -> LeftBrace [] c = "}" -> RightBrace
      [] c = "[" -> LeftBracket [] c = "]" -> RightBracket
      [] c = ":" -> Colon [] c = "," -> Comma
IsNumberStart(c) == c \in Digits \/ c = "-"
IsNumberChar(c) == c \in Digits \/ c \in {".", "e", "E", "+", "-"}
IsLiteralStart(c) == c \in {"t", "f", "n"}

\* Unescape with \n left as the letter n
UnescapeKeepsN(x) ==
    CASE x \in {"\"", "\\", "/", "n"} -> x
      [] x = "b" -> "BS" [] x = "f" -> "FF"
      [] x = "r" -> "CR" [] x = "t" -> "TAB"

\* the escape table of string mode
IsEscape(x) == x \in {"\"", "\\", "/", "b", "f", "n", "r", "t"}
Unescape(x) ==
    CASE x \in {"\"", "\\", "/"} -> x
      [] x = "b" -> "BS" [] x = "f" -> "FF" [] x = "n" -> "LF"
      [] x = "r" -> "CR" [] x = "t" -> "TAB"

\* StringAtEnd reporting the unterminated literal
StringAtEndRejected(p, acc) == [ok |-> FALSE, pos |-> p, str |-> acc]

\* what string mode does when the input ends before the closing quote
StringAtEnd(p, acc) == [ok |-> TRUE, pos |-> p, str |-> acc]

\* the inner loop of string mode, entered after the opening quote
RECURSIVE ScanString(_, _, _)
ScanString(t, p, acc) ==
    IF p > Len(t) THEN StringAtEnd(p, acc)
    ELSE IF t[p] = "\"" THEN [ok |-> TRUE, pos |-> p + 1, str |-> acc]
    ELSE IF t[p] = "\\"
    THEN IF p + 1 > Len(t) THEN ScanString(t, p + 1, acc)
         ELSE IF IsEscape(t[p + 1])
         THEN ScanString(t, p + 2, Append(acc, Unescape(t[p + 1])))
         ELSE [ok |-> FALSE, pos |-> p + 2, str |-> acc]
    ELSE ScanString(t, p + 1, Append(acc, t[p]))

\* the end of the maximal run of number characters that starts at p
RECURSIVE NumberRunEnd(_, _)
NumberRunEnd(t, p) ==
    IF p <= Len(t) /\ IsNumberChar(t[p]) THEN NumberRunEnd(t, p + 1) ELSE p

\* number mode: a leading '-' is taken first, then the run
NumberEnd(t, p) == NumberRunEnd(t, IF t[p] = "-" THEN p + 1 ELSE p)

\* the literal a leading t, f or n announces
KwTrue == <<"t", "r", "u", "e">>
KwFalse == <<"f", "a", "l", "s", "e">>
KwNull == <<"n", "u", "l", "l">>
LiteralText(c) == CASE c = "t" -> KwTrue [] c = "f" -> KwFalse [] c = "n" -> KwNull
LiteralToken(c) ==
    CASE c = "t" -> TBoolean(TRUE) [] c = "f" -> TBoolean(FALSE) [] c = "n" -> TNull
LiteralError(c) == CASE c = "t" -> ErrTrue [] c = "f" -> ErrFalse [] c = "n" -> ErrNull

\* LiteralEnd reading on to the end of the word
RECURSIVE WordEnd(_, _)
WordEnd(t, p) ==
    IF p <= Len(t) /\ t[p] \in {"a", "b", "e", "f", "l", "n", "r", "s", "t", "u"}
    THEN WordEnd(t, p + 1)
    ELSE p
LiteralEndOfWord(t, p, n) == WordEnd(t, p)

\* the position after `for _ in 0..n { chars.next() }` started at p
LiteralEnd(t, p, n) == IF p + n - 1 <= Len(t) THEN p + n ELSE Len(t) + 1

\* WhitespaceEnd leaving the character unread
WhitespaceEndStuck(p) == p

\* the whitespace arm: chars.next()
WhitespaceEnd(p) == p + 1

----------------------------------------------------------------------------
(* The checked inputs.                                                     *)

SingleChars ==
    {" ", "VT", "{", "}", "[", "]", ":", ",", "\"", "\\", "/", "b", "f", "n",
     "r", "t", "u", "a", "0", "1", "2", "-", ".", "e", "+"}
Words ==
    {<<c>> : c \in SingleChars}
    \cup {KwTrue, KwFalse, KwNull, <<"\"", "a", "\\">>, <<"\"", "a", "\"">>,
          <<"\"", "\\", "n", "\"">>, <<"\"", "\\", "u", "\"">>,
          <<"1", ".", "5", "e", "-", "1">>}

RECURSIVE TextsOf(_)
TextsOf(n) ==
    IF n = 0 THEN {<<>>}
    ELSE LET shorter == TextsOf(n - 1)
         IN  shorter \cup {t \o w : t \in shorter, w \in Words}
\* two whole documents with blanks, of the shape of main's json_str:
\* [1, 2] and {"a": [1, 2]}
DocArray == <<"[", "1", ",", " ", "2", "]">>
DocObject == <<"{", "\"", "a", "\"", ":", " ">> \o DocArray \o <<"}">>
Texts == TextsOf(MaxLexemes) \cup {DocArray, DocObject}

\* 1.0 and 2.0
One == F64(FALSE, F64ExpBias, Zeros(F64FracBits))
Two == F64(FALSE, F64ExpBias + 1, Zeros(F64FracBits))
KeyA == <<"a">>
KeyB == <<"b">>
ScalarTokens == {TString(KeyA), TNumber(One), TNumber(Two), TBoolean(TRUE), TNull}
TokenAlphabet ==
    {LeftBrace, RightBrace, LeftBracket, RightBracket, Colon, Comma, TString(KeyB)}
    \cup ScalarTokens
FreeSeqs == UNION {[1..n -> TokenAlphabet] : n \in 0..MaxFree}
WrappedSeqs ==
    {<<LeftBracket>> \o s \o <<RightBracket>> : s \in FreeSeqs}
    \cup {<<LeftBrace, TString(KeyA), Colon>> \o s \o <<RightBrace>> : s \in FreeSeqs}

\* the ways a member list is closed: properly, after a trailing comma, not at
\* all, or by the other kind of closing token
Endings(close, other) == {<<close>>, <<Comma, close>>, <<>>, <<other>>}

MemberKeys == {TString(KeyA), TString(KeyB)}
MemberValues == {TNumber(One), TNumber(Two), TString(KeyA)}
RECURSIVE ObjectBodies(_)
ObjectBodies(n) ==
    IF n = 0 THEN {<<>>}
    ELSE {(IF b = <<>> THEN b ELSE Append(b, Comma)) \o <<k, Colon, v>> :
              b \in ObjectBodies(n - 1), k \in MemberKeys, v \in MemberValues}
ObjectSeqs ==
    {<<LeftBrace>> \o b \o e :
        b \in UNION {ObjectBodies(n) : n \in 0..MaxMembers},
        e \in Endings(RightBrace, RightBracket)}

RECURSIVE ArrayBodies(_)
ArrayBodies(n) ==
    IF n = 0 THEN {<<>>}
    ELSE {(IF b = <<>> THEN b ELSE Append(b, Comma)) \o <<v>> :
              b \in ArrayBodies(n - 1), v \in ScalarTokens}
ArraySeqs ==
    {<<LeftBracket>> \o b \o e :
        b \in UNION {ArrayBodies(n) : n \in 0..MaxMembers},
        e \in Endings(RightBracket, RightBrace)}

\* the member lists again, as the one element of an array
NestedSeqs ==
    {<<LeftBracket>> \o s \o <<RightBracket>> : s \in ObjectSeqs \cup ArraySeqs}

TokenSeqs == FreeSeqs \cup WrappedSeqs \cup ObjectSeqs \cup ArraySeqs \cup NestedSeqs

\* A process whose stack has room for every nesting that n tokens can ask
\* for, and the processes of a small stack with frames of one or two units
\* and other calls that need up to four: the first HashMap::new of a thread
\* and map.insert can need more than two activations of parse_array.
Roomy(n) == [room |-> 2 * n + 1, value |-> 1, object |-> 1, array |-> 1, leaf |-> 0]
FrameSizes == {1, 2}
LeafNeeds == 0..4
Processes ==
    [room : 1..(4 * MaxDepth + 6), value : FrameSizes, object : FrameSizes,
     array : FrameSizes, leaf : LeafNeeds]

\* the tokens that open a container and go down into it, and those that
\* close it
Opening(kind) ==
    IF kind = "object" THEN <<LeftBrace, TString(KeyA), Colon>> ELSE <<LeftBracket>>
Closing(kind) == IF kind = "object" THEN <<RightBrace>> ELSE <<RightBracket>>
RECURSIVE Nest(_)
Nest(kinds) ==
    IF kinds = <<>> THEN <<TNumber(One)>>
    ELSE Opening(Head(kinds)) \o Nest(Tail(kinds)) \o Closing(Head(kinds))
ContainerKinds == {"object", "array"}
Nests == {Nest(ks) : ks \in UNION {[1..n -> ContainerKinds] : n \in 1..MaxDepth}}
\* the nests, and two containers side by side in an array
StackSeqs ==
    Nests \cup {<<LeftBracket>> \o Nest(<<a>>) \o <<Comma>> \o Nest(<<b>>) \o <<RightBracket>>
                 : a \in ContainerKinds, b \in ContainerKinds}

----------------------------------------------------------------------------
(* Parser: the cursor.                                                     *)

NoToken == [kind |-> "None"]
NoKey == <<>>

\* Parser::peek
Peek(c) == IF c < Len(tokens) THEN tokens[c + 1] ELSE NoToken

\* Advance without the test against tokens.len()
AdvanceUnchecked(c) == c + 1

\* Parser::advance: the cursor it leaves
Advance(c) == IF c < Len(tokens) THEN c + 1 ELSE c

\* Parser::advance: what tokens.get(current - 1) can give after the move.  At
\* the end of the tokens it is the last token again.  With no token at all
\* current - 1 underflows: a build with overflow checks panics there, a build
\* without them wraps around and gets None.
Panicked == [kind |-> "Panic"]
Advanced(c) ==
    IF c < Len(tokens) THEN {tokens[c + 1]}
    ELSE IF c >= 1 THEN {tokens[c]}
    ELSE {NoToken, Panicked}

ObjectFrame(map, key) == [kind |-> "object", map |-> map, key |-> key, items |-> <<>>]
ArrayFrame(items) == [kind |-> "array", map |-> EmptyMap, key |-> NoKey, items |-> items]
Top(s) == s[Len(s)]
Pop(s) == SubSeq(s, 1, Len(s) - 1)

\* The activations of parse_value, parse_object and parse_array live on the
\* thread's stack.  How much of it is left when parse is called, and how much
\* an activation of each function takes, is set by the process (its stack
\* limit, its environment) and by the build, not by the source: proc holds
\* them, in one unit.  An activation of parse_object or parse_array stays
\* until it returns, and with it the activation of parse_value that called it.
FrameSize(kind) == IF kind = "object" THEN proc.object ELSE proc.array
RECURSIVE StackUse(_)
StackUse(s) ==
    IF s = <<>> THEN 0
    ELSE StackUse(Pop(s)) + proc.value + FrameSize(Top(s).kind)

\* What the other calls of an activation (peek, advance, HashMap::new, insert,
\* push, clone, to_string) need on top of it, for the time they run.  It is
\* not one amount: it depends on the call and on what the thread has done
\* before (the first HashMap::new of a thread sets up its hash keys and goes
\* deeper than the later ones).  It is any amount up to proc.leaf.
TransientNeeds == 0..proc.leaf

\* a call that needs `need` more of the stack overflows it
Overflows(need) == StackUse(stack) + need > proc.room

IsScalar(tok) == tok.kind \in {"String", "Number", "Boolean", "Null"}
ScalarValue(tok) ==
    CASE tok.kind = "String" -> JString(tok.s)
      [] tok.kind = "Number" -> JNumber(tok.n)
      [] tok.kind = "Boolean" -> JBoolean(tok.b)
      [] tok.kind = "Null" -> JNull

\* map.insert(key, value)
InsertMember(frame, v) == ObjectFrame(MapInsert(frame.map, frame.key, v), NoKey)

\* PushElement putting the value in front
PushElementFront(frame, v) == ArrayFrame(<<v>> \o frame.items)

\* array.push(value)
PushElement(frame, v) == ArrayFrame(Append(frame.items, v))

\* the token at the top of parse_object's loop that ends the object
ObjectCloses(tok) == tok = RightBrace

\* ArrayCloses taking either closing token
ArrayClosesOnAny(tok) == tok \in {RightBracket, RightBrace}

\* the token at the top of parse_array's loop that ends the array
ArrayCloses(tok) == tok = RightBracket

----------------------------------------------------------------------------
(* The state after construction: main's call of tokenize on a text, or a   *)
(* Parser built by Parser::new from a token sequence.                      *)

InitTokenize ==
    /\ text \in Texts /\ pos = 1 /\ toks = <<>> /\ tokres = NoResult
    /\ tokens = <<>> /\ current = 0 /\ stack = <<>>
    /\ pc = "tokenize" /\ result = NoResult
    /\ proc = Roomy(Len(text))

InitParser ==
    /\ text = <<>> /\ pos = 1 /\ toks = <<>> /\ tokres = NoResult
    /\ tokens \in TokenSeqs /\ current = 0 /\ stack = <<>>
    /\ pc = "parse_value" /\ result = NoResult
    /\ proc = Roomy(Len(tokens))

\* a Parser on nested containers, in a process of any small stack
InitStack ==
    /\ text = <<>> /\ pos = 1 /\ toks = <<>> /\ tokres = NoResult
    /\ tokens \in StackSeqs /\ current = 0 /\ stack = <<>>
    /\ pc = "parse_value" /\ result = NoResult
    /\ proc \in Processes

Init == InitTokenize \/ InitParser \/ InitStack

----------------------------------------------------------------------------
(* tokenize: one action per arm of the main loop's match.                  *)

ParserIdle == UNCHANGED <<tokens, current, stack, result, proc>>

TokFail(m) ==
    /\ tokres' = Err(m) /\ toks' = <<>> /\ pc' = "done"
    /\ UNCHANGED <<text, pos>> /\ ParserIdle

TokPush(tok, p) ==
    /\ toks' = Append(toks, tok) /\ pos' = p
    /\ UNCHANGED <<text, tokres, pc>> /\ ParserIdle

AtChar == pc = "tokenize" /\ pos <= Len(text)

TokWhitespace ==
    /\ AtChar /\ IsWhitespace(text[pos])
    /\ pos' = WhitespaceEnd(pos)
    /\ UNCHANGED <<text, toks, tokres, pc>> /\ ParserIdle

TokStructural ==
    /\ AtChar /\ IsStructural(text[pos])
    /\ TokPush(StructuralToken(text[pos]), pos + 1)

TokString ==
    /\ AtChar /\ text[pos] = "\""
    /\ LET r == ScanString(text, pos + 1, <<>>)
       IN  IF r.ok THEN TokPush(TString(r.str), r.pos) ELSE TokFail(ErrEscape)

TokNumber ==
    /\ AtChar /\ IsNumberStart(text[pos])
    /\ LET e == NumberEnd(text, pos)
           r == ParseF64(SubSeq(text, pos, e - 1))
       IN  IF r.st = "ok" THEN TokPush(TNumber(r.val), e) ELSE TokFail(ErrNumber)

TokLiteral ==
    /\ AtChar /\ IsLiteralStart(text[pos])
    /\ LET c == text[pos]
           e == LiteralEnd(text, pos, Len(LiteralText(c)))
       IN  IF SubSeq(text, pos, e - 1) = LiteralText(c)
           THEN TokPush(LiteralToken(c), e)
           ELSE TokFail(LiteralError(c))

TokUnexpected ==
    /\ AtChar
    /\ ~IsWhitespace(text[pos]) /\ ~IsStructural(text[pos]) /\ text[pos] # "\""
    /\ ~IsNumberStart(text[pos]) /\ ~IsLiteralStart(text[pos])
    /\ TokFail(ErrChar(text[pos]))

TokReturn ==
    /\ pc = "tokenize" /\ pos > Len(text)
    /\ tokres' = Ok(toks) /\ toks' = <<>> /\ pc' = "main"
    /\ UNCHANGED <<text, pos>> /\ ParserIdle

\* main: Parser::new(tokens), then parser.parse()
NewParser ==
    /\ pc = "main"
    /\ tokens' = tokres.val /\ current' = 0 /\ stack' = <<>> /\ pc' = "parse_value"
    /\ UNCHANGED <<text, pos, toks, tokres, result, proc>>

----------------------------------------------------------------------------
(* Parser: parse_value, and one action per iteration of the loops of       *)
(* parse_object and parse_array.                                           *)

TokenizerIdle == UNCHANGED <<text, pos, toks, tokres, tokens, proc>>

\* an Err return, carried by `?` through every activation up to parse
Fail(m, c) ==
    /\ pc' = "done" /\ result' = Err(m) /\ current' = c /\ stack' = <<>>
    /\ TokenizerIdle

\* a panic or an abort: the process ends and parse returns nothing
Die(m, c) ==
    /\ pc' = "died" /\ result' = Died(m) /\ current' = c /\ stack' = <<>>
    /\ TokenizerIdle

\* A callee returns Ok(v) with the cursor at c to the activations s: parse
\* returns it, parse_object inserts it, parse_array pushes it; the two loops
\* then look for a separator or the closing token.
ReturnTo(s, c, v) ==
    IF s = <<>>
    THEN /\ pc' = "done" /\ result' = Ok(v) /\ current' = c /\ stack' = s
         /\ TokenizerIdle
    ELSE IF Top(s).kind = "object"
    THEN IF Peek(c) \in {Comma, RightBrace, NoToken}
         THEN /\ stack' = Append(Pop(s), InsertMember(Top(s), v))
              /\ current' = IF Peek(c) = Comma THEN Advance(c) ELSE c
              /\ pc' = "parse_object"
              /\ UNCHANGED result /\ TokenizerIdle
         ELSE Fail(ErrObjSep, c)
    ELSE IF Peek(c) \in {Comma, RightBracket, NoToken}
         THEN /\ stack' = Append(Pop(s), PushElement(Top(s), v))
              /\ current' = IF Peek(c) = Comma THEN Advance(c) ELSE c
              /\ pc' = "parse_array"
              /\ UNCHANGED result /\ TokenizerIdle
         ELSE Fail(ErrArrSep, c)

ParseValue ==
    /\ pc = "parse_value"
    /\ \E extra \in TransientNeeds :
       LET tok == Peek(current)
           need == proc.value + extra
       IN  IF tok = NoToken
           THEN IF Overflows(need) THEN Die(AbortStack, current)
                ELSE Fail(ErrEnd, current)
           ELSE IF tok = LeftBrace
           THEN IF Overflows(need + proc.object) THEN Die(AbortStack, current)
                ELSE /\ current' = Advance(current)
                     /\ stack' = Append(stack, ObjectFrame(EmptyMap, NoKey))
                     /\ pc' = "parse_object"
                     /\ UNCHANGED result /\ TokenizerIdle
           ELSE IF tok = LeftBracket
           THEN IF Overflows(need + proc.array) THEN Die(AbortStack, current)
                ELSE /\ current' = Advance(current)
                     /\ stack' = Append(stack, ArrayFrame(<<>>))
                     /\ pc' = "parse_array"
                     /\ UNCHANGED result /\ TokenizerIdle
           ELSE IF Overflows(need) THEN Die(AbortStack, current)
           ELSE IF IsScalar(tok)
           THEN ReturnTo(stack, Advance(current), ScalarValue(tok))
           ELSE Fail(ErrToken, current)

ParseObject ==
    /\ pc = "parse_object"
    /\ LET tok == Peek(current)
           c1 == Advance(current)
           c2 == Advance(c1)
       IN  IF tok = NoToken THEN Fail(ErrObjOpen, current)
           ELSE IF ObjectCloses(tok)
           THEN ReturnTo(Pop(stack), Advance(current), JObject(Top(stack).map))
           ELSE \E key \in Advanced(current) :
                IF key = Panicked THEN Die(PanicSubtract, c1)
                ELSE IF key = NoToken THEN Fail(ErrNoKey, c1)
                ELSE IF key.kind # "String" THEN Fail(ErrKey, c1)
                ELSE \E colon \in Advanced(c1) :
                     IF colon = Panicked THEN Die(PanicSubtract, c2)
                     ELSE IF colon # Colon THEN Fail(ErrColon, c2)
                     ELSE /\ current' = c2
                          /\ stack' = Append(Pop(stack),
                                             ObjectFrame(Top(stack).map, key.s))
                          /\ pc' = "parse_value"
                          /\ UNCHANGED result /\ TokenizerIdle

ParseArray ==
    /\ pc = "parse_array"
    /\ LET tok == Peek(current)
       IN  IF tok = NoToken THEN Fail(ErrArrOpen, current)
           ELSE IF ArrayCloses(tok)
           THEN ReturnTo(Pop(stack), Advance(current), JArray(Top(stack).items))
           ELSE /\ pc' = "parse_value"
                /\ UNCHANGED <<current, stack, result>> /\ TokenizerIdle

----------------------------------------------------------------------------

Next ==
    \/ TokWhitespace
    \/ TokStructural
    \/ TokString
    \/ TokNumber
    \/ TokLiteral
    \/ TokUnexpected
    \/ TokReturn
    \/ NewParser
    \/ ParseValue
    \/ ParseObject
    \/ ParseArray

Spec == Init /\ [][Next]_vars

\* tokenize and parse run to their return: no step of the program waits
FairSpec == Spec /\ WF_vars(Next)

----------------------------------------------------------------------------
(* Properties.                                                             *)

TokReturned == tokres # NoResult
ParseReturned == pc = "done" /\ result # NoResult
ParseOk == ParseReturned /\ result.st = "ok"
Parsing == pc \in {"parse_value", "parse_object", "parse_array"}

\* C1: whenever parse returns Ok, the cursor equals the number of tokens.
C1_ParseConsumesAll == ParseOk => current = Len(tokens)

\* C2: parse never returns Ok after consuming a Comma that is immediately
\* followed by the closing token of its object or array, and for an object
\* { k : v , } the error is the one of the key check.
C2_TrailingCommaRejected ==
    /\ ParseOk =>
           \A i \in 1..(current - 1) :
               ~(tokens[i] = Comma /\ tokens[i + 1] \in {RightBrace, RightBracket})
    /\ (/\ ParseReturned /\ Len(tokens) = 6
        /\ tokens[1] = LeftBrace /\ tokens[2].kind = "String" /\ tokens[3] = Colon
        /\ tokens[4].kind \in {"String", "Number", "Boolean", "Null"}
        /\ tokens[5] = Comma /\ tokens[6] = RightBrace) =>
           result = Err(ErrKey)

\* The containers opened and not yet closed by tokens 1..n, outermost first;
\* Mismatch once a closing token met no opener of its kind.
Mismatch == <<"mismatch">>
RECURSIVE Openers(_)
Openers(n) ==
    IF n = 0 THEN <<>>
    ELSE LET o == Openers(n - 1)
             t == tokens[n]
             closes(kind) ==
                 IF o # <<>> /\ o[Len(o)] = kind
                 THEN SubSeq(o, 1, Len(o) - 1)
                 ELSE Mismatch
         IN  IF o = Mismatch THEN Mismatch
             ELSE IF t = LeftBrace THEN Append(o, "object")
             ELSE IF t = LeftBracket THEN Append(o, "array")
             ELSE IF t = RightBrace THEN closes("object")
             ELSE IF t = RightBracket THEN closes("array")
             ELSE o

\* C3: the activations of parse_object and parse_array are at every moment
\* exactly the containers the consumed tokens opened and did not close with
\* their matching token, so a container returns Ok only by consuming its
\* closing token; and a token sequence none of whose prefixes closes all it
\* opened makes parse return an error.
C3_ClosedOnlyByMatchingToken ==
    /\ (Parsing \/ ParseOk) =>
           [i \in 1..Len(stack) |-> stack[i].kind] = Openers(current)
    /\ (ParseReturned /\ \A n \in 1..Len(tokens) : Openers(n) # <<>>) =>
           result.st = "err"

\* an object opened and never closed was refused
C3_Witness ==
    /\ ParseReturned /\ Len(tokens) >= 4
    /\ tokens[1] = LeftBrace /\ tokens[Len(tokens)].kind \in {"Number", "String"}
    /\ \A n \in 1..Len(tokens) : Openers(n) # <<>>
    /\ result = Err(ErrObjOpen)

\* the value a scalar token stands for
SameScalar(v, tok) ==
    /\ v.type = tok.kind
    /\ tok.kind = "String" => v.s = tok.s
    /\ tok.kind = "Number" => v.n = tok.n
    /\ tok.kind = "Boolean" => v.b = tok.b

ScalarKinds == {"String", "Number", "Boolean", "Null"}

\* The tokens are { k1 : v1 , ... , kn : vn } with scalar values, alone
\* (off = 0) or as the one element of an array (off = 1).
FlatObject(off, n) ==
    LET size == IF n = 0 THEN 2 ELSE 4 * n + 1
    IN  /\ Len(tokens) = size + 2 * off
        /\ off = 1 => tokens[1] = LeftBracket /\ tokens[Len(tokens)] = RightBracket
        /\ tokens[off + 1] = LeftBrace /\ tokens[off + size] = RightBrace
        /\ \A i \in 1..n :
               /\ tokens[off + 4 * i - 2].kind = "String"
               /\ tokens[off + 4 * i - 1] = Colon
               /\ tokens[off + 4 * i].kind \in ScalarKinds
               /\ i < n => tokens[off + 4 * i + 1] = Comma

\* parse returned Ok, as an array of one element when off = 1
OkAt(off) ==
    /\ result.st = "ok"
    /\ off = 1 => result.val.type = "Array" /\ Len(result.val.items) = 1
\* the value parsed from the tokens after the first off ones
ValueAt(off) == IF off = 0 THEN result.val ELSE result.val.items[1]

\* C4: a well-formed object parses without error to a map with exactly one
\* entry per distinct key, holding the value of the key's last occurrence.
C4_LastKeyWins ==
    ParseReturned =>
        \A off \in 0..1, n \in 0..Len(tokens) :
            FlatObject(off, n) =>
                /\ OkAt(off) /\ ValueAt(off).type = "Object"
                /\ DOMAIN ValueAt(off).map = {tokens[off + 4 * i - 2].s : i \in 1..n}
                /\ \A i \in 1..n :
                       (\A j \in (i + 1)..n :
                            tokens[off + 4 * j - 2].s # tokens[off + 4 * i - 2].s)
                           => SameScalar(ValueAt(off).map[tokens[off + 4 * i - 2].s],
                                         tokens[off + 4 * i])

\* an object whose first and last of three members share a key and differ in
\* value
C4_Witness ==
    /\ ParseOk /\ FlatObject(0, 3)
    /\ tokens[2] = tokens[10] /\ tokens[4] # tokens[12] /\ tokens[6] # tokens[2]

\* The tokens are [ v1 , ... , vn ] with scalar values, alone (off = 0) or as
\* the one element of an array (off = 1).
FlatArray(off, n) ==
    LET size == IF n = 0 THEN 2 ELSE 2 * n + 1
    IN  /\ Len(tokens) = size + 2 * off
        /\ off = 1 => tokens[1] = LeftBracket /\ tokens[Len(tokens)] = RightBracket
        /\ tokens[off + 1] = LeftBracket /\ tokens[off + size] = RightBracket
        /\ \A i \in 1..n :
               /\ tokens[off + 2 * i].kind \in ScalarKinds
               /\ i < n => tokens[off + 2 * i + 1] = Comma

\* C5: a well-formed array parses to an Array with one element per element
\* of the tokens, the i-th being the value of the i-th.
C5_ArrayInSourceOrder ==
    ParseReturned =>
        \A off \in 0..1, n \in 0..Len(tokens) :
            FlatArray(off, n) =>
                /\ OkAt(off) /\ ValueAt(off).type = "Array"
                /\ Len(ValueAt(off).items) = n
                /\ \A i \in 1..n :
                       SameScalar(ValueAt(off).items[i], tokens[off + 2 * i])

\* an array of three elements, the first two different
C5_Witness == ParseOk /\ FlatArray(0, 3) /\ tokens[2] # tokens[4]

\* A string literal opens at q, after structural characters and blanks
\* only; its token is then the one after theirs.
StructuralChars == {"{", "}", "[", "]", ":", ","}
StringOpensAt(q) ==
    /\ q \in 1..Len(text) /\ text[q] = "\""
    /\ \A j \in 1..(q - 1) : text[j] \in StructuralChars \cup {" "}
TokenIndex(q) == 1 + Cardinality({j \in 1..(q - 1) : text[j] \in StructuralChars})

\* the characters from i to j hold no quote and no backslash
Plain(i, j) == \A m \in i..j : text[m] \notin {"\"", "\\"}

\* the first backslash of the literal that opens at q is at k, and one more
\* character follows it
EscapeAt(q, k) ==
    /\ StringOpensAt(q) /\ q < k /\ k + 1 <= Len(text)
    /\ text[k] = "\\" /\ Plain(q + 1, k - 1)

\* tokenize, if it returned Ok, returned for the literal that opens at q a
\* String token that starts with the characters s
StringStarts(q, s) ==
    tokres.st = "ok" =>
        /\ tokres.val[TokenIndex(q)].kind = "String"
        /\ Len(tokres.val[TokenIndex(q)].s) >= Len(s)
        /\ SubSeq(tokres.val[TokenIndex(q)].s, 1, Len(s)) = s

\* C6: after a backslash in a string literal, each of " \ / appends itself,
\* each of b f n r t appends its control character, and any other character
\* makes tokenize return the invalid-escape error.
C6_EscapeDecoding ==
    TokReturned =>
        \A q \in 1..Len(text), k \in 1..Len(text) :
            EscapeAt(q, k) =>
                LET x == text[k + 1]
                    before == SubSeq(text, q + 1, k - 1)
                IN  CASE x \in {"\"", "\\", "/"} -> StringStarts(q, Append(before, x))
                      [] x = "b" -> StringStarts(q, Append(before, "BS"))
                      [] x = "f" -> StringStarts(q, Append(before, "FF"))
                      [] x = "n" -> StringStarts(q, Append(before, "LF"))
                      [] x = "r" -> StringStarts(q, Append(before, "CR"))
                      [] x = "t" -> StringStarts(q, Append(before, "TAB"))
                      [] OTHER -> tokres = Err(ErrEscape)

\* a literal with the escape \n after a plain character was tokenized
C6_Witness ==
    /\ TokReturned /\ tokres.st = "ok"
    /\ \E k \in 3..Len(text) : EscapeAt(1, k) /\ text[k + 1] = "n"

\* the three literal keywords: text, token, error
Keywords ==
    {<<KwTrue, TBoolean(TRUE), ErrTrue>>,
     <<KwFalse, TBoolean(FALSE), ErrFalse>>,
     <<KwNull, TNull, ErrNull>>}
StartsWith(t, w) == Len(t) >= Len(w) /\ SubSeq(t, 1, Len(w)) = w

\* C7: a text that starts with t, f or n either starts with the whole
\* keyword, whose token is then the first one, or makes tokenize return that
\* keyword's error; and a keyword directly followed by another keyword, a
\* digit or a structural character yields the two tokens.
C7_LiteralsFixedLength ==
    TokReturned =>
        \A kw \in Keywords :
            /\ (text # <<>> /\ text[1] = kw[1][1]) =>
                   IF StartsWith(text, kw[1])
                   THEN tokres.st = "ok" => tokres.val[1] = kw[2]
                   ELSE tokres = Err(kw[3])
            /\ \A kw2 \in Keywords :
                   text = kw[1] \o kw2[1] => tokres = Ok(<<kw[2], kw2[2]>>)
            /\ text = Append(kw[1], "1") => tokres = Ok(<<kw[2], TNumber(One)>>)
            /\ text = Append(kw[1], "[") => tokres = Ok(<<kw[2], LeftBracket>>)

\* truefalse was tokenized
C7_Witness == TokReturned /\ text = KwTrue \o KwFalse /\ tokres.st = "ok"

Min(a, b) == IF a <= b THEN a ELSE b

\* C8: the cursor stays within 0..tokens.len() and no step moves it back; a
\* step that only peeks leaves it, a step that advances once moves it by
\* one (unless the process aborts in the call of the container), the
\* key-and-colon step moves it by two or to the end, and at the end no step
\* moves it.
C8_CursorForwardBounded ==
    /\ [](current \in 0..Len(tokens))
    /\ [][/\ current' >= current
          /\ (pc = "parse_array" /\ ~ArrayCloses(Peek(current))) => current' = current
          /\ (pc = "parse_value" /\ Peek(current) \in {LeftBrace, LeftBracket}
                  /\ pc' # "died")
                 => current' = current + 1
          /\ (pc = "parse_object" /\ Peek(current).kind = "String")
                 => current' = Min(current + 2, Len(tokens))
          /\ (Parsing /\ current = Len(tokens)) => current' = current]_vars

\* the colon was asked for with the cursor already at the end
C8_Witness ==
    /\ ParseReturned /\ result = Err(ErrColon)
    /\ current = Len(tokens) /\ tokens[current].kind = "String"

\* C9: a string literal the input ends in is returned as a String token of
\* the characters read, and a backslash that ends the input is dropped.
C9_UnterminatedStringAccepted ==
    TokReturned =>
        \A q \in 1..Len(text) :
            StringOpensAt(q) =>
                LET last == Len(text)
                    isLastToken(s) ==
                        /\ tokres.st = "ok" /\ Len(tokres.val) = TokenIndex(q)
                        /\ tokres.val[TokenIndex(q)] = TString(s)
                IN  /\ Plain(q + 1, last) => isLastToken(SubSeq(text, q + 1, last))
                    /\ (q < last /\ text[last] = "\\" /\ Plain(q + 1, last - 1)) =>
                           isLastToken(SubSeq(text, q + 1, last - 1))

\* a literal cut short after a backslash was tokenized
C9_Witness ==
    /\ TokReturned /\ Len(text) >= 3 /\ StringOpensAt(1)
    /\ text[Len(text)] = "\\" /\ Plain(2, Len(text) - 1)
    /\ tokres.st = "ok"

\* the process aborted on an overflow of its stack
StackOverflowed == pc = "died" /\ result = Died(AbortStack)

\* C10: every run ends with tokenize having returned Err, or with parse
\* having returned Ok or Err, unless the nesting of the tokens makes the
\* process overflow its stack, which ends the process; each iteration of
\* tokenize's loop reads at least one character or returns, and each step of
\* the parser's loops moves the cursor, returns, or hands the token at the
\* cursor to parse_value.
C10_Terminates ==
    /\ <>(\/ pc = "done" /\ tokres.st = "err"
          \/ ParseReturned
          \/ StackOverflowed)
    /\ [][/\ pc = "tokenize" => (pos' > pos \/ pc' # "tokenize")
          /\ pc \in {"parse_object", "parse_array"} =>
                 \/ current' > current
                 \/ pc' = "done"
                 \/ (pc = "parse_array" /\ pc' = "parse_value")]_vars

\* a text with blanks went through both stages: tokenize's loop over the
\* blanks and the other characters, parse_object's loop over a member and
\* parse_array's over two elements
C10_Witness ==
    /\ TokReturned /\ ParseOk
    /\ \E i \in 1..Len(text) : IsWhitespace(text[i])
    /\ result.val.type = "Object"
    /\ \E k \in DOMAIN result.val.map :
           /\ result.val.map[k].type = "Array"
           /\ Len(result.val.map[k].items) = 2

=============================================================================
